---------------------------- MODULE Spec2Model ----------------------------
(***************************************************************************)
(* Model of the real-time audio bridge of ai-superconnector:               *)
(*   src/apps/api/services/openai_realtime.py  (OpenAIRealtimeClient)      *)
(*   src/apps/api/services/realtime_bridge.py  (RealtimeBridge)            *)
(*                                                                         *)
(* asyncio runs one coroutine at a time and switches only at an await, so  *)
(* one action of the model is the code between two suspension points.      *)
(* Audio is modelled by its length in bytes.                               *)
(***************************************************************************)
EXTENDS Integers, Naturals, Sequences, FiniteSets, TLC

VARIABLES
    client,     \* the fields of OpenAIRealtimeClient
    bridge,     \* the fields of RealtimeBridge
    pc,         \* position of handle_connection and of the three tasks
    env,        \* the two sockets as the remote peers left them
    hist,       \* what has been transmitted so far (observation only)
    call,       \* the last operation called on its own (SpecClient, SpecCodec)
    wire        \* the audio that went through, byte by byte (SpecStreams)

vars == <<client, bridge, pc, env, hist, call, wire>>

----------------------------------------------------------------------------
(* Program constants *)

\* openai_realtime.py:183  samples / 24000.0
SampleRate == 24000
\* openai_realtime.py:183  * 1000.0
MsPerSecond == 1000
\* openai_realtime.py:205  if self._ms_since_last_commit < 100.0
CommitThresholdMs == 100
\* realtime_bridge.py:182  while len(self.audio_buffer) >= 160
FrameBytes == 160
\* realtime_bridge.py:224  if self._chunks_since_commit >= 10
ChunksPerCommit == 10
\* realtime_bridge.py:397  chunk_size = 160
ChunkSize == 160
\* realtime_bridge.py:158  await self.send_test_tone_ms(300)
ToneMs == 300
\* realtime_bridge.py:61-66  the four header styles tried by connect()
ConnectAttempts == 4

(* Bounds of the model *)

\* SpecClient stops appending audio once this many ms are buffered
MaxBufferedMs == 140
\* SpecClient stops repeating create_response after this many queued calls
MaxQueued == 3
\* SpecClient stops calling configure_session after this many session.update
MaxSessionUpdates == 2

\* SpecStreams stops receiving media once this many bytes have arrived
MaxReceived == 640
\* SpecStreams stops receiving audio deltas after this many audio events
MaxAudioEvents == 2

\* PCM16 buffers handed to send_audio in SpecClient: a 20 ms frame (960 bytes)
\* and one sample less (958 bytes).  For the sums of these the float of the
\* code and the exact value agree on the comparison with 100.0.
AudioLens == {958, 960}

----------------------------------------------------------------------------
(* OpenAIRealtimeClient *)

\* __init__
ClientInit ==
    [ websocket                |-> "none",
      session_id               |-> "none",
      is_connected             |-> FALSE,
      ms_since_last_commit     |-> 0,      \* in units of 1/SampleRate ms
      response_in_progress     |-> FALSE,
      pending_response_request |-> FALSE ]

\* connect(): self.websocket = ws
ConnectOpened(c) == [c EXCEPT !.websocket = "ws"]

\* mutant of ConnectCreated: the session is not marked connected
ConnectCreatedNotMarked(c, id) == [c EXCEPT !.session_id = id]

\* connect(): the first message is session.created with the session's id
ConnectCreated(c, id) == [c EXCEPT !.session_id = id, !.is_connected = TRUE]

\* connect(): what it returns for the way the handshake went; every exception
\* is caught
ConnectReturn(outcome) == IF outcome = "session.created" THEN "True" ELSE "False"

\* a send on the speech socket succeeds while the peer has not closed it
SendOk == env.oa_sock = "open"

\* send_audio: ms_added = (len // 2) / 24000.0 * 1000.0, kept exact by
\* holding the counter multiplied by SampleRate
MsAdded(len) == (len \div 2) * MsPerSecond

\* send_audio up to its await: None without a websocket, else the send
SendAudioGate(c) == IF c.websocket = "none" THEN "not_sent" ELSE "send"

\* mutant of SendAudioResume: the counter is advanced before the send returned
SendAudioResumeAlways(c, len, ok) ==
    [c EXCEPT !.ms_since_last_commit = @ + MsAdded(len)]

\* send_audio after its await
SendAudioResume(c, len, ok) ==
    IF ok THEN [c EXCEPT !.ms_since_last_commit = @ + MsAdded(len)] ELSE c

\* the mutant of CommitGate: the threshold compared with <= instead of <
CommitGateOffByOne(c) ==
    IF c.websocket = "none" THEN "not_sent"
    ELSE IF c.ms_since_last_commit <= CommitThresholdMs * SampleRate THEN "skipped"
    ELSE "send"

\* commit_audio up to its await
CommitGate(c) ==
    IF c.websocket = "none" THEN "not_sent"
    ELSE IF c.ms_since_last_commit < CommitThresholdMs * SampleRate THEN "skipped"
    ELSE "send"

\* commit_audio after its await: the counter is reset only after the send
CommitResume(c, ok) ==
    IF ok THEN [c EXCEPT !.ms_since_last_commit = 0] ELSE c

\* mutant of CreateGate: a request is queued whether or not a response is in
\* progress
CreateGateAlwaysQueues(c) ==
    IF c.websocket = "none" THEN "not_sent" ELSE "queued"

\* create_response up to its await
CreateGate(c) ==
    IF c.websocket = "none" THEN "not_sent"
    ELSE IF c.response_in_progress THEN "queued"
    ELSE "send"

\* create_response, the queued branch
CreateQueue(c) == [c EXCEPT !.pending_response_request = TRUE]

\* create_response after its await
CreateResume(c, ok) ==
    IF ok THEN [c EXCEPT !.response_in_progress = TRUE] ELSE c

\* messages of the speech API; "other" is any type receive_events ignores
Messages ==
    { "response.audio.delta", "response.audio_transcript.delta", "response.done",
      "input_audio_buffer.speech_started", "input_audio_buffer.speech_stopped",
      "error", "other" }

\* receive_events: the event yielded for a message ("none": nothing yielded);
\* len is the decoded length of an audio delta, nonempty says a transcript
\* delta carries text
Yielded(m, len) ==
    CASE m = "response.audio.delta" -> IF len > 0 THEN "audio" ELSE "none"
      [] m = "response.audio_transcript.delta" -> "transcript"
      [] m = "response.done" -> "done"
      [] m = "input_audio_buffer.speech_started" -> "speech_started"
      [] m = "input_audio_buffer.speech_stopped" -> "speech_stopped"
      [] m = "error" -> "error"
      [] OTHER -> "none"

\* receive_events, from the message to the yield
BeforeYield(c, m, len) ==
    IF m = "response.audio.delta" /\ len > 0
    THEN [c EXCEPT !.response_in_progress = TRUE]
    ELSE c

\* the mutant of AfterYieldDone: the pending request is kept when it is issued
AfterYieldDoneKeepsPending(c) == [c EXCEPT !.response_in_progress = FALSE]

\* receive_events, resumed after yielding {done}: clear in-progress and the
\* pending request (the queued create_response follows when one was pending)
AfterYieldDone(c) ==
    [c EXCEPT !.response_in_progress = FALSE, !.pending_response_request = FALSE]

\* disconnect up to its await
DisconnectBegin(c) == [c EXCEPT !.is_connected = FALSE]

\* disconnect after await self.websocket.close(); a close that raised leaves
\* the fields as they are
DisconnectResume(c, ok) ==
    IF ok THEN [c EXCEPT !.websocket = "none", !.session_id = "none"] ELSE c


----------------------------------------------------------------------------
(* RealtimeBridge: state and pure helpers *)

\* __init__
BridgeInit ==
    [ stream_sid           |-> "",
      is_active            |-> TRUE,
      audio_buffer         |-> 0,       \* len(self.audio_buffer)
      chunks_since_commit  |-> 0,
      started_event        |-> FALSE ]

\* mutant of MulawToPcm16Len: the samples are not repeated
MulawToPcm16LenNotUpsampled(n) == n * 2

\* mulaw_to_pcm16: one 16-bit sample per mu-law byte, each repeated 3 times
MulawToPcm16Len(n) == n * 2 * 3

\* pcm16_to_mulaw: one byte per i in range(0, len(pcm_data) - 2, 6)
Pcm16ToMulawLen(len) == IF len - 2 <= 0 THEN 0 ELSE (len - 2 + 5) \div 6

\* send_audio_to_twilio: one write per i in range(0, len(audio_data), chunk_size)
ChunkCount(len) == (len + ChunkSize - 1) \div ChunkSize

\* send_test_tone_ms: num_samples = int(24000 * (duration_ms / 1000.0)) PCM16
\* samples, encoded by pcm16_to_mulaw
ToneMulawLen(duration_ms) ==
    Pcm16ToMulawLen(2 * ((SampleRate * duration_ms) \div MsPerSecond))

\* a write on the telephony socket succeeds while the caller's side is there
TwSendOk == env.tw_sock = "open"

\* the position a task takes at the head of  while self.is_active:
LoopHead(b, waiting) == IF b.is_active THEN waiting ELSE "done"

\* if not self.stream_sid: return  -- the mutant writes without looking
HasStreamSidAlways(b) == TRUE

\* send_audio_to_twilio and clear_twilio_buffer write only with a stream_sid
HasStreamSid(b) == b.stream_sid # ""

\* mutant of ChunkOffset: the chunks are taken from the end of the buffer
ChunkOffsetReversed(len, left) == (left - 1) * ChunkSize

\* send_audio_to_twilio: the offset i of the chunk written when `left` of the
\* ChunkCount(len) iterations of  for i in range(0, len, chunk_size)  remain
ChunkOffset(len, left) == (ChunkCount(len) - left) * ChunkSize

\* mutant of PaddedChunk: a short last chunk is written as it is
ChunkUnpadded(len, i) ==
    [ data |-> IF len - i < ChunkSize THEN len - i ELSE ChunkSize, pad |-> 0 ]

\* send_audio_to_twilio: chunk = audio_data[i:i+chunk_size], padded with 0xff
\* up to chunk_size; data: bytes of the buffer, pad: bytes of padding
PaddedChunk(len, i) ==
    LET data == IF len - i < ChunkSize THEN len - i ELSE ChunkSize
    IN  [ data |-> data, pad |-> IF data < ChunkSize THEN ChunkSize - data ELSE 0 ]

\* The bytes of the telephony stream are told apart by their offset in it: a
\* bytearray is a sequence of runs <<lo, hi>>, the bytes lo .. hi-1 in order.
RECURSIVE RunsLen(_)
RunsLen(b) == IF b = <<>> THEN 0 ELSE (Head(b)[2] - Head(b)[1]) + RunsLen(Tail(b))

\* b[:n]
RECURSIVE Take(_, _)
Take(b, n) ==
    IF n <= 0 \/ b = <<>> THEN <<>>
    ELSE LET h == Head(b)
             l == h[2] - h[1]
         IN  IF l <= n THEN <<h>> \o Take(Tail(b), n - l)
             ELSE << <<h[1], h[1] + n>> >>

\* b[n:]
RECURSIVE Drop(_, _)
Drop(b, n) ==
    IF n <= 0 \/ b = <<>> THEN b
    ELSE LET h == Head(b)
             l == h[2] - h[1]
         IN  IF l <= n THEN Drop(Tail(b), n - l)
             ELSE << <<h[1] + n, h[2]>> >> \o Tail(b)

\* the same bytes with adjacent runs joined
RECURSIVE Joined(_)
Joined(b) ==
    IF Len(b) < 2 THEN b
    ELSE IF b[1][2] = b[2][1]
         THEN Joined(<< <<b[1][1], b[2][2]>> >> \o Tail(Tail(b)))
         ELSE <<b[1]>> \o Joined(Tail(b))

\* nothing is followed (Spec, FairSpec, SpecClient)
WireOff ==
    [ on |-> FALSE, received |-> 0, buf |-> <<>>, cut |-> <<>>, sent |-> <<>>,
      events |-> 0, egress_ev |-> 0, egress_len |-> 0, written |-> <<>>,
      error_seen |-> FALSE ]

\* self.audio_buffer.extend(audio_bytes)
Extend(w, len) ==
    IF w.on
    THEN [w EXCEPT !.buf = Append(@, <<w.received, w.received + len>>),
                   !.received = @ + len]
    ELSE w

\* mutant of CutFrame: the frame is taken from the end of the accumulator
CutFrameFromEnd(w) ==
    IF w.on
    THEN [w EXCEPT !.cut = Append(@, Drop(w.buf, RunsLen(w.buf) - FrameBytes)),
                   !.buf = Take(@, RunsLen(w.buf) - FrameBytes)]
    ELSE w

\* frame_ulaw = bytes(self.audio_buffer[:160]); self.audio_buffer = self.audio_buffer[160:]
CutFrame(w) ==
    IF w.on
    THEN [w EXCEPT !.cut = Append(@, Take(w.buf, FrameBytes)),
                   !.buf = Drop(@, FrameBytes)]
    ELSE w

\* send_audio(pcm_audio) returned True for the frame in hand
FrameSent(w) ==
    IF w.on THEN [w EXCEPT !.sent = Append(@, w.cut[Len(w.cut)])] ELSE w

\* The ingress loop between two suspension points works on
\*   s = [client, bridge, wire, at]   at: where the ingress task suspends next.
\* mutant of DrainLoop: frames are cut only while more than 160 bytes remain
RECURSIVE DrainLoopStrict(_)
DrainLoopStrict(s) ==
    IF s.bridge.audio_buffer <= FrameBytes
    THEN [s EXCEPT !.at = LoopHead(s.bridge, "recv")]
    ELSE LET t == [s EXCEPT !.bridge.audio_buffer = @ - FrameBytes,
                            !.wire = CutFrame(@)]
         IN  IF SendAudioGate(t.client) = "send"
             THEN [t EXCEPT !.at = "append_send"]
             ELSE DrainLoopStrict(t)

RECURSIVE DrainLoop(_), CommitStep(_)
\* while len(self.audio_buffer) >= 160: cut one frame, convert, send_audio
DrainLoop(s) ==
    IF s.bridge.audio_buffer < FrameBytes
    THEN [s EXCEPT !.at = LoopHead(s.bridge, "recv")]
    ELSE LET t == [s EXCEPT !.bridge.audio_buffer = @ - FrameBytes,
                            !.wire = CutFrame(@)]
         IN  IF SendAudioGate(t.client) = "send"
             THEN [t EXCEPT !.at = "append_send"]
             ELSE CommitStep(t)

\* mutant of CommitStep: the commit is attempted one chunk early
CommitStepEarly(s) ==
    IF s.bridge.chunks_since_commit >= ChunksPerCommit - 1
       /\ CommitGate(s.client) = "send"
    THEN [s EXCEPT !.at = "commit_send"]
    ELSE DrainLoop(s)

\* if self._chunks_since_commit >= 10: commit_audio(), up to its await
CommitStep(s) ==
    IF s.bridge.chunks_since_commit >= ChunksPerCommit
       /\ CommitGate(s.client) = "send"
    THEN [s EXCEPT !.at = "commit_send"]
    ELSE DrainLoop(s)

\* after a commit that returned True: reset the chunk counter, create_response
AfterCommitted(s) ==
    LET t == [s EXCEPT !.bridge.chunks_since_commit = 0]
    IN  CASE CreateGate(t.client) = "send"   -> [t EXCEPT !.at = "create_send"]
          [] CreateGate(t.client) = "queued" ->
                 DrainLoop([t EXCEPT !.client = CreateQueue(t.client)])
          [] OTHER -> DrainLoop(t)

----------------------------------------------------------------------------
(* The bridge as a state machine *)

\* mu-law payload sizes of inbound media messages: half a frame, one frame,
\* two frames
PayloadLens == {80, 160, 320}

\* PCM16 sizes of response.audio.delta: empty, one egress chunk (160 mu-law
\* bytes), one chunk and one byte more (161), two chunks (320)
DeltaLens == {0, 960, 966, 1920}

HistInit ==
    [ creates_since_done |-> 0,      \* response.create sent since the last response.done
      session_updates    |-> 0,      \* session.update sent
      appends            |-> FALSE,  \* some input_audio_buffer.append was sent
      media_seen         |-> FALSE,  \* a media event was received
      stop_seen          |-> FALSE,  \* the stop event was processed
      connect_result     |-> "pending",
      cancelled          |-> FALSE,  \* handle_connection was cancelled
      tone_complete      |-> FALSE ] \* every frame of the diagnostic tone was written

\* op: the operation; pre, sock, n: the client, the socket and the number of
\* queued create_response calls before it; len: the length of the audio given
\* to send_audio; first, id: how the handshake of connect() went and the id in
\* session.created; ret: what it returned; sent: the
\* messages it transmitted; resumed: the consumer asked for the next event;
\* queued: create_response calls that returned False since the last {done}
CallInit ==
    [ op |-> "none", ret |-> "none", sent |-> 0, resumed |-> FALSE, queued |-> 0,
      n |-> 0, sock |-> "unopened", pre |-> ClientInit,
      len |-> 0, first |-> "none", id |-> "none" ]

\* handle_connection has created the ingress task and waits for started_event
Init ==
    /\ client = ClientInit
    /\ bridge = BridgeInit
    /\ pc = [ conn |-> "wait_start", twilio |-> "recv", openai |-> "none",
              heartbeat |-> "none", attempt |-> 0, tw_left |-> 0, oa_left |-> 0 ]
    /\ env = [ oa_sock |-> "unopened", tw_sock |-> "open" ]
    /\ hist = HistInit
    /\ call = CallInit
    /\ wire = WireOff

(* handle_connection *)

\* wait_for(self.started_event.wait(), 5.0) returns: the event was set
StartObserved ==
    /\ pc.conn = "wait_start"
    /\ bridge.started_event
    /\ pc' = [pc EXCEPT !.conn = "ws_connect", !.attempt = 1]
    /\ UNCHANGED <<client, bridge, env, hist, call, wire>>

\* mutant of StartTimeout: the timeout ends the bridge
StartTimeoutAborts ==
    /\ pc.conn = "wait_start"
    /\ ~bridge.started_event
    /\ bridge' = [bridge EXCEPT !.is_active = FALSE]
    /\ pc' = [pc EXCEPT !.conn = "tw_close"]
    /\ UNCHANGED <<client, env, hist, call, wire>>

\* wait_for(...) raises TimeoutError: the bridge continues anyway
StartTimeout ==
    /\ pc.conn = "wait_start"
    /\ ~bridge.started_event
    /\ pc' = [pc EXCEPT !.conn = "ws_connect", !.attempt = 1]
    /\ UNCHANGED <<client, bridge, env, hist, call, wire>>

\* mutant of Spawn: the speech-event task is created also when connect() failed
SpawnAlways(p, connected) ==
    [p EXCEPT !.conn = "gather", !.openai = "recv", !.heartbeat = "start"]

\* connect() has returned: the tasks are created and gathered
Spawn(p, connected) ==
    [p EXCEPT !.conn = "gather",
              !.openai = IF connected THEN "recv" ELSE "none",
              !.heartbeat = "start"]

\* connect(): await websockets.connect(url, **kwargs), one header style
ConnectAttempt ==
    /\ pc.conn = "ws_connect"
    /\ \E opened \in BOOLEAN :
         IF opened
         THEN /\ client' = ConnectOpened(client)
              /\ env' = [env EXCEPT !.oa_sock = "open"]
              /\ pc' = [pc EXCEPT !.conn = "ws_recv"]
              /\ hist' = hist
         ELSE IF pc.attempt < ConnectAttempts
         THEN /\ pc' = [pc EXCEPT !.attempt = @ + 1]
              /\ UNCHANGED <<client, env, hist>>
         ELSE \* raise last_err: caught, return False
              /\ pc' = Spawn(pc, FALSE)
              /\ hist' = [hist EXCEPT !.connect_result = "fail"]
              /\ UNCHANGED <<client, env>>
    /\ UNCHANGED <<bridge, call, wire>>

\* connect(): response = await self.websocket.recv(), the first message
FirstMessage ==
    /\ pc.conn = "ws_recv"
    /\ env.oa_sock \in {"open", "closing"}
    /\ \E m \in {"session.created", "error"} :
         IF m = "session.created"
         THEN /\ client' = ConnectCreated(client, "sess")
              /\ pc' = Spawn(pc, TRUE)
              /\ hist' = [hist EXCEPT !.connect_result = "ok"]
         ELSE /\ pc' = Spawn(pc, FALSE)
              /\ hist' = [hist EXCEPT !.connect_result = "fail"]
              /\ client' = client
    /\ UNCHANGED <<bridge, env, call, wire>>

\* connect(): recv() raises on a connection the peer closed: return False
FirstMessageClosed ==
    /\ pc.conn = "ws_recv"
    /\ env.oa_sock = "closing"
    /\ env' = [env EXCEPT !.oa_sock = "closed"]
    /\ pc' = Spawn(pc, FALSE)
    /\ hist' = [hist EXCEPT !.connect_result = "fail"]
    /\ UNCHANGED <<client, bridge, call, wire>>

\* gather(*tasks) returns; finally: is_active = False, disconnect() to its await
GatherDone ==
    /\ pc.conn = "gather"
    /\ pc.twilio = "done"
    /\ pc.heartbeat = "done"
    /\ pc.openai \in {"none", "done"}
    /\ bridge' = [bridge EXCEPT !.is_active = FALSE]
    /\ client' = DisconnectBegin(client)
    /\ pc' = [pc EXCEPT !.conn = IF client.websocket = "none" THEN "tw_close" ELSE "oa_close"]
    /\ UNCHANGED <<env, hist, call, wire>>

\* the server cancels handle_connection at one of its awaits: CancelledError
\* is caught and the finally block runs.  A cancelled gather cancels the
\* tasks it waits for, and each of them ends on its CancelledError; before
\* gather the ingress task is not cancelled and runs on.
Cancelled ==
    /\ pc.conn \in {"wait_start", "ws_connect", "ws_recv", "gather"}
    /\ bridge' = [bridge EXCEPT !.is_active = FALSE]
    /\ client' = DisconnectBegin(client)
    /\ pc' = IF pc.conn = "gather"
             THEN [pc EXCEPT !.conn = IF client.websocket = "none" THEN "tw_close" ELSE "oa_close",
                             !.twilio = "done", !.heartbeat = "done",
                             !.openai = IF @ = "none" THEN "none" ELSE "done",
                             !.tw_left = 0, !.oa_left = 0]
             ELSE [pc EXCEPT !.conn = IF client.websocket = "none" THEN "tw_close" ELSE "oa_close"]
    /\ hist' = [hist EXCEPT !.cancelled = TRUE]
    /\ UNCHANGED <<env, call, wire>>

\* mutant of SpeechCloseDone: a close() that raised ends handle_connection
SpeechCloseEscapes ==
    /\ pc.conn = "oa_close"
    /\ \E ok \in BOOLEAN :
         /\ client' = DisconnectResume(client, ok)
         /\ pc' = [pc EXCEPT !.conn = IF ok THEN "tw_close" ELSE "closed"]
    /\ env' = [env EXCEPT !.oa_sock = "closed"]
    /\ UNCHANGED <<bridge, hist, call, wire>>

\* disconnect(): await self.websocket.close() returns or raises
SpeechCloseDone ==
    /\ pc.conn = "oa_close"
    /\ \E ok \in BOOLEAN : client' = DisconnectResume(client, ok)
    /\ env' = [env EXCEPT !.oa_sock = "closed"]
    /\ pc' = [pc EXCEPT !.conn = "tw_close"]
    /\ UNCHANGED <<bridge, hist, call, wire>>

\* finally: await self.websocket.close() on the telephony socket returns or
\* raises (except: pass)
TelephonyCloseDone ==
    /\ pc.conn = "tw_close"
    /\ env' = [env EXCEPT !.tw_sock = "closed"]
    /\ pc' = [pc EXCEPT !.conn = "closed"]
    /\ UNCHANGED <<client, bridge, hist, call, wire>>

(* handle_twilio_messages: the ingress task *)

\* the ingress task has run from s up to its next suspension point
IngressAt(s) ==
    /\ client' = s.client
    /\ bridge' = s.bridge
    /\ wire' = s.wire
    /\ pc' = [pc EXCEPT !.twilio = s.at]

IngressNow == [client |-> client, bridge |-> bridge, wire |-> wire, at |-> pc.twilio]

\* receive_text() returns a connected or a mark event: logged only
TwilioInformational ==
    /\ pc.twilio = "recv"
    /\ env.tw_sock = "open"
    /\ pc' = [pc EXCEPT !.twilio = LoopHead(bridge, "recv")]
    /\ UNCHANGED <<client, bridge, env, hist, call, wire>>

\* a message that is not JSON, or a media payload that is not base64: the
\* exception is caught inside the loop, which continues
TwilioMalformed ==
    /\ pc.twilio = "recv"
    /\ env.tw_sock = "open"
    /\ pc' = [pc EXCEPT !.twilio = LoopHead(bridge, "recv")]
    /\ UNCHANGED <<client, bridge, env, hist, call, wire>>

\* Twilio sends connected, then start once, then media and mark, then stop;
\* the model keeps to that order for start and media and lets stop, a
\* disconnection and malformed messages come at any time.
\* the start event, with or without a streamSid:
\* set stream_sid and started_event, then clear_twilio_buffer() to its await
TwilioStart ==
    /\ pc.twilio = "recv"
    /\ env.tw_sock = "open"
    /\ ~bridge.started_event
    /\ \E sid \in {"", "MZ"} :
         LET b == [bridge EXCEPT !.stream_sid = sid, !.started_event = TRUE]
         IN  /\ bridge' = b
             /\ pc' = [pc EXCEPT !.twilio =
                          IF HasStreamSid(b) THEN "clear_send" ELSE LoopHead(b, "recv")]
    /\ UNCHANGED <<client, env, hist, call, wire>>

\* clear_twilio_buffer(): send_text returned or raised; then send_test_tone_ms
\* up to the first write of send_audio_to_twilio
ClearSendDone ==
    /\ pc.twilio = "clear_send"
    /\ pc' = [pc EXCEPT !.twilio = IF ChunkCount(ToneMulawLen(ToneMs)) > 0
                                   THEN "tone_send" ELSE LoopHead(bridge, "recv"),
                        !.tw_left = ChunkCount(ToneMulawLen(ToneMs))]
    /\ UNCHANGED <<client, bridge, env, hist, call, wire>>

\* send_audio_to_twilio() for the tone: one chunk written (then sleep(0.001)),
\* or the write raised, which ends the function
ToneChunkDone ==
    /\ pc.twilio = "tone_send"
    /\ IF TwSendOk
       THEN /\ hist' = [hist EXCEPT !.tone_complete = (pc.tw_left = 1)]
            /\ pc' = [pc EXCEPT !.tw_left = @ - 1,
                                !.twilio = IF pc.tw_left > 1 THEN "tone_send"
                                           ELSE LoopHead(bridge, "recv")]
       ELSE /\ hist' = hist
            /\ pc' = [pc EXCEPT !.tw_left = 0, !.twilio = LoopHead(bridge, "recv")]
    /\ UNCHANGED <<client, bridge, env, call, wire>>

\* a media event with an empty payload: nothing is appended
TwilioMediaEmpty ==
    /\ pc.twilio = "recv"
    /\ bridge.started_event
    /\ env.tw_sock = "open"
    /\ pc' = [pc EXCEPT !.twilio = LoopHead(bridge, "recv")]
    /\ hist' = [hist EXCEPT !.media_seen = TRUE]
    /\ UNCHANGED <<client, bridge, env, call, wire>>

\* a media event: extend the accumulator, then the frame loop to its first await
TwilioMedia ==
    /\ pc.twilio = "recv"
    /\ bridge.started_event
    /\ env.tw_sock = "open"
    /\ \E len \in PayloadLens :
         /\ wire.on => wire.received + len <= MaxReceived
         /\ IngressAt(DrainLoop([IngressNow EXCEPT !.bridge.audio_buffer = @ + len,
                                                   !.wire = Extend(@, len)]))
         /\ hist' = [hist EXCEPT !.media_seen = TRUE]
    /\ UNCHANGED <<env, call>>

\* send_audio(): the append was sent (count the chunk) or the send raised
AppendSendDone ==
    /\ pc.twilio = "append_send"
    /\ LET c == SendAudioResume(client, MulawToPcm16Len(FrameBytes), SendOk)
           b == IF SendOk THEN [bridge EXCEPT !.chunks_since_commit = @ + 1] ELSE bridge
           w == IF SendOk THEN FrameSent(wire) ELSE wire
       IN  IngressAt(CommitStep([client |-> c, bridge |-> b, wire |-> w,
                                 at |-> "append_send"]))
    /\ hist' = [hist EXCEPT !.appends = @ \/ SendOk]
    /\ UNCHANGED <<env, call>>

\* commit_audio(): the commit was sent (reset, then create_response to its
\* await) or the send raised (the chunk counter is kept)
CommitSendDone ==
    /\ pc.twilio = "commit_send"
    /\ LET s == [IngressNow EXCEPT !.client = CommitResume(client, SendOk)]
       IN  IngressAt(IF SendOk THEN AfterCommitted(s) ELSE DrainLoop(s))
    /\ UNCHANGED <<env, hist, call>>

\* create_response() called by the ingress task: the send returned or raised
CreateSendDone ==
    /\ pc.twilio = "create_send"
    /\ IngressAt(DrainLoop([IngressNow EXCEPT !.client = CreateResume(client, SendOk)]))
    /\ hist' = [hist EXCEPT !.creates_since_done = IF SendOk THEN @ + 1 ELSE @]
    /\ UNCHANGED <<env, call>>

\* the stop event: is_active = False; break
TwilioStop ==
    /\ pc.twilio = "recv"
    /\ env.tw_sock = "open"
    /\ bridge' = [bridge EXCEPT !.is_active = FALSE]
    /\ pc' = [pc EXCEPT !.twilio = "done"]
    /\ hist' = [hist EXCEPT !.stop_seen = TRUE]
    /\ UNCHANGED <<client, env, call, wire>>

\* receive_text() raises because the caller's side is gone or the socket was
\* closed: the exception is caught inside the loop, which continues with the
\* next receive_text()
TwilioRecvRaises ==
    /\ pc.twilio = "recv"
    /\ env.tw_sock \in {"disconnected", "closed"}
    /\ pc' = [pc EXCEPT !.twilio = LoopHead(bridge, "recv")]
    /\ UNCHANGED <<client, bridge, env, hist, call, wire>>

\* the telephony peer drops the connection without a stop event
TwilioPeerDisconnect ==
    /\ env.tw_sock = "open"
    /\ pc.conn # "closed"
    /\ env' = [env EXCEPT !.tw_sock = "disconnected"]
    /\ UNCHANGED <<client, bridge, pc, hist, call, wire>>

(* handle_openai_events over receive_events: the speech-event task *)

\* mutant of OnResponseDone: in-progress is cleared and the queued request
\* issued before the yield, whatever the consumer does next
OnResponseDoneClearsFirst ==
    /\ pc.openai = "recv"
    /\ env.oa_sock \in {"open", "closing"}
    /\ hist' = [hist EXCEPT !.creates_since_done = 0]
    /\ client' = AfterYieldDone(client)
    /\ pc' = [pc EXCEPT !.openai =
                 IF client.pending_response_request THEN "create_send"
                 ELSE IF bridge.is_active THEN "recv" ELSE "done"]
    /\ UNCHANGED <<bridge, env, call, wire>>

\* recv() returns response.done: {done} is yielded; the consumer breaks when
\* the bridge is no longer active, else it asks for the next event, which
\* resumes the stream: clear in-progress and send the queued create_response
OnResponseDone ==
    /\ pc.openai = "recv"
    /\ env.oa_sock \in {"open", "closing"}
    /\ hist' = [hist EXCEPT !.creates_since_done = 0]
    /\ IF ~bridge.is_active
       THEN /\ pc' = [pc EXCEPT !.openai = "done"]
            /\ client' = client
       ELSE /\ client' = AfterYieldDone(client)
            /\ pc' = [pc EXCEPT !.openai =
                         IF client.pending_response_request
                            /\ CreateGate(AfterYieldDone(client)) = "send"
                         THEN "create_send" ELSE "recv"]
    /\ wire' = IF wire.on /\ bridge.is_active
               THEN [wire EXCEPT !.error_seen = FALSE] ELSE wire
    /\ UNCHANGED <<bridge, env, call>>

\* the queued create_response(): the send returned or raised
QueuedCreateSendDone ==
    /\ pc.openai = "create_send"
    /\ client' = CreateResume(client, SendOk)
    /\ hist' = [hist EXCEPT !.creates_since_done = IF SendOk THEN @ + 1 ELSE @]
    /\ pc' = [pc EXCEPT !.openai = "recv"]
    /\ UNCHANGED <<bridge, env, call, wire>>

\* recv() returns response.audio.delta: mark the response in progress, yield
\* {audio}; the consumer converts it and starts send_audio_to_twilio
OnAudioDelta ==
    /\ pc.openai = "recv"
    /\ env.oa_sock \in {"open", "closing"}
    /\ \E len \in DeltaLens :
         LET c  == BeforeYield(client, "response.audio.delta", len)
             ev == Yielded("response.audio.delta", len)
             m  == Pcm16ToMulawLen(len)
             n  == ChunkCount(m)
         IN  /\ wire.on => wire.events < MaxAudioEvents
             /\ client' = c
             /\ hist' = hist
             /\ pc' = IF ev = "none" THEN pc
                      ELSE IF ~bridge.is_active THEN [pc EXCEPT !.openai = "done"]
                      ELSE IF ~HasStreamSid(bridge) \/ n = 0 THEN pc
                      ELSE [pc EXCEPT !.openai = "egress_send", !.oa_left = n]
             /\ wire' = IF ~wire.on \/ ev = "none" THEN wire
                        ELSE IF ~bridge.is_active
                        THEN [wire EXCEPT !.events = @ + 1]
                        ELSE [wire EXCEPT !.events = @ + 1, !.egress_ev = wire.events + 1,
                                          !.egress_len = m]
    /\ UNCHANGED <<bridge, env, call>>

\* send_audio_to_twilio() for model audio: one chunk written (then
\* sleep(0.001)), or the write raised, which ends the function
EgressChunkDone ==
    /\ pc.openai = "egress_send"
    /\ pc' = IF TwSendOk
             THEN [pc EXCEPT !.oa_left = @ - 1,
                             !.openai = IF pc.oa_left > 1 THEN "egress_send" ELSE "recv"]
             ELSE [pc EXCEPT !.oa_left = 0, !.openai = "recv"]
    /\ wire' = IF wire.on /\ TwSendOk
               THEN LET i == ChunkOffset(wire.egress_len, pc.oa_left)
                    IN  [wire EXCEPT !.written =
                            Append(@, [ ev |-> wire.egress_ev, of |-> wire.egress_len,
                                        off |-> i,
                                        chunk |-> PaddedChunk(wire.egress_len, i) ])]
               ELSE wire
    /\ UNCHANGED <<client, bridge, env, hist, call>>

\* recv() returns a transcript delta, speech_started or speech_stopped:
\* yielded and logged by the consumer, which breaks when not active
OnLoggedEvent ==
    /\ pc.openai = "recv"
    /\ env.oa_sock \in {"open", "closing"}
    /\ \E m \in Messages \ {"response.audio.delta", "response.done", "error", "other"} :
         Yielded(m, 0) # "none"
    /\ pc' = [pc EXCEPT !.openai = LoopHead(bridge, "recv")]
    /\ UNCHANGED <<client, bridge, env, hist, call, wire>>

\* recv() returns an error event: {error} is yielded and logged by the
\* consumer, which breaks when not active; no field of the client changes
OnErrorEvent ==
    /\ pc.openai = "recv"
    /\ env.oa_sock \in {"open", "closing"}
    /\ Yielded("error", 0) = "error"
    /\ pc' = [pc EXCEPT !.openai = LoopHead(bridge, "recv")]
    /\ wire' = IF wire.on /\ client.response_in_progress
               THEN [wire EXCEPT !.error_seen = TRUE] ELSE wire
    /\ UNCHANGED <<client, bridge, env, hist, call>>

\* recv() returns a message of a type receive_events does not handle
OnOtherMessage ==
    /\ pc.openai = "recv"
    /\ env.oa_sock \in {"open", "closing"}
    /\ UNCHANGED vars

\* recv() raises ConnectionClosed: the stream ends without an event and
\* handle_openai_events returns
EventStreamClosed ==
    /\ pc.openai = "recv"
    /\ env.oa_sock = "closing"
    /\ env' = [env EXCEPT !.oa_sock = "closed"]
    /\ pc' = [pc EXCEPT !.openai = "done"]
    /\ UNCHANGED <<client, bridge, hist, call, wire>>

\* recv() returns a message that is not JSON: json.loads raises, the stream
\* ends and handle_openai_events returns
OnMalformedMessage ==
    /\ pc.openai = "recv"
    /\ env.oa_sock \in {"open", "closing"}
    /\ pc' = [pc EXCEPT !.openai = "done"]
    /\ UNCHANGED <<client, bridge, env, hist, call, wire>>

\* the speech API closes the connection
SpeechPeerClose ==
    /\ env.oa_sock = "open"
    /\ env' = [env EXCEPT !.oa_sock = "closing"]
    /\ UNCHANGED <<client, bridge, pc, hist, call, wire>>

(* send_heartbeat: the keepalive task *)

\* the task starts: while self.is_active
HeartbeatStart ==
    /\ pc.heartbeat = "start"
    /\ pc' = [pc EXCEPT !.heartbeat = LoopHead(bridge, "sleep")]
    /\ UNCHANGED <<client, bridge, env, hist, call, wire>>

\* mutant of HeartbeatWake: the heartbeat is sent without looking at is_active
HeartbeatWakeBlind ==
    /\ pc.heartbeat = "sleep"
    /\ pc' = [pc EXCEPT !.heartbeat = "send"]
    /\ UNCHANGED <<client, bridge, env, hist, call, wire>>

\* asyncio.sleep(30) returns: break when not active, else send the heartbeat
HeartbeatWake ==
    /\ pc.heartbeat = "sleep"
    /\ pc' = [pc EXCEPT !.heartbeat = LoopHead(bridge, "send")]
    /\ UNCHANGED <<client, bridge, env, hist, call, wire>>

\* send_text(heartbeat) returned, or raised: is_active = False; break
HeartbeatSendDone ==
    /\ pc.heartbeat = "send"
    /\ IF TwSendOk
       THEN /\ pc' = [pc EXCEPT !.heartbeat = LoopHead(bridge, "sleep")]
            /\ bridge' = bridge
       ELSE /\ pc' = [pc EXCEPT !.heartbeat = "done"]
            /\ bridge' = [bridge EXCEPT !.is_active = FALSE]
    /\ UNCHANGED <<client, env, hist, call, wire>>

----------------------------------------------------------------------------
ConnStep ==
    \/ StartObserved \/ StartTimeout \/ ConnectAttempt \/ FirstMessageClosed
    \/ GatherDone \/ SpeechCloseDone \/ TelephonyCloseDone

IngressStep ==
    \/ ClearSendDone \/ ToneChunkDone \/ AppendSendDone \/ CommitSendDone
    \/ CreateSendDone \/ TwilioRecvRaises

EventStep == QueuedCreateSendDone \/ EgressChunkDone \/ EventStreamClosed

HeartbeatStep == HeartbeatStart \/ HeartbeatWake \/ HeartbeatSendDone

\* what the two peers decide: the messages they send and when they leave
PeerStep ==
    \/ FirstMessage
    \/ TwilioInformational \/ TwilioMalformed \/ TwilioStart \/ TwilioMediaEmpty
    \/ TwilioMedia \/ TwilioStop \/ TwilioPeerDisconnect
    \/ OnResponseDone \/ OnAudioDelta \/ OnLoggedEvent \/ OnErrorEvent
    \/ OnOtherMessage
    \/ OnMalformedMessage \/ SpeechPeerClose \/ Cancelled

Next == ConnStep \/ IngressStep \/ EventStep \/ HeartbeatStep \/ PeerStep

Spec == Init /\ [][Next]_vars

\* The event loop runs every task that is ready: a send, a close, a sleep or
\* a wait_for that was awaited returns.  A message of a peer is not owed.
FairSpec ==
    /\ Spec
    /\ WF_vars(ConnStep)
    /\ WF_vars(IngressStep)
    /\ WF_vars(EventStep)
    /\ WF_vars(HeartbeatStep)

----------------------------------------------------------------------------
(* SpecClient: the operations of OpenAIRealtimeClient called one after the  *)
(* other, each run to its return, on every state the client can be in.      *)

InitClient ==
    /\ client = ClientInit
    /\ bridge = BridgeInit
    /\ pc = [ conn |-> "none", twilio |-> "none", openai |-> "none",
              heartbeat |-> "none", attempt |-> 0, tw_left |-> 0, oa_left |-> 0 ]
    /\ env = [ oa_sock |-> "unopened", tw_sock |-> "open" ]
    /\ hist = HistInit
    /\ call = CallInit
    /\ wire = WireOff

Called(op, ret, sent, resumed, queued) ==
    [ op |-> op, ret |-> ret, sent |-> sent, resumed |-> resumed, queued |-> queued,
      n |-> call.queued, sock |-> env.oa_sock, pre |-> client,
      len |-> 0, first |-> "none", id |-> "none" ]

\* ids the speech API gives to a session
SessionIds == {"sess", "sess2"}

\* how the handshake of connect() can go: no header style opens the socket;
\* the first message is session.created, an error or not JSON; recv() raises
Handshakes == {"refused", "session.created", "error", "not_json", "closed"}

\* connect()
CallConnect ==
    /\ client.websocket = "none"
    /\ env.oa_sock = "unopened"
    /\ \E outcome \in Handshakes, id \in SessionIds :
         /\ outcome # "session.created" => id = "sess"
         /\ client' = CASE outcome = "refused"  -> client
                        [] outcome = "session.created"
                                                -> ConnectCreated(ConnectOpened(client), id)
                        [] OTHER                -> ConnectOpened(client)
         /\ env' = [env EXCEPT !.oa_sock = IF outcome \in {"refused", "closed"}
                                           THEN "closed" ELSE "open"]
         /\ call' = [Called("connect", ConnectReturn(outcome), 0, FALSE, call.queued)
                       EXCEPT !.first = outcome, !.id = id]
    /\ UNCHANGED <<bridge, pc, hist, wire>>

\* configure_session(): one session.update, unless the send raises
CallConfigure ==
    /\ hist.session_updates < MaxSessionUpdates
    /\ LET ok == client.websocket # "none" /\ SendOk
       IN  /\ hist' = [hist EXCEPT !.session_updates = IF ok THEN @ + 1 ELSE @]
           /\ call' = Called("configure_session", "None", IF ok THEN 1 ELSE 0,
                             FALSE, call.queued)
    /\ UNCHANGED <<client, bridge, pc, env, wire>>

\* send_audio(audio_data)
CallSendAudio ==
    /\ client.ms_since_last_commit < MaxBufferedMs * SampleRate
    /\ \E len \in AudioLens :
         LET ok == SendAudioGate(client) = "send" /\ SendOk
         IN  /\ client' = SendAudioResume(client, len, ok)
             /\ call' = [Called("send_audio", IF ok THEN "True" ELSE "None",
                                IF ok THEN 1 ELSE 0, FALSE, call.queued)
                           EXCEPT !.len = len]
    /\ UNCHANGED <<bridge, pc, env, hist, wire>>

\* commit_audio()
CallCommit ==
    /\ LET gate == CommitGate(client)
           ok   == gate = "send" /\ SendOk
       IN  /\ client' = CommitResume(client, ok)
           /\ call' = Called("commit_audio",
                             CASE ok -> "True" [] gate = "skipped" -> "False" [] OTHER -> "None",
                             IF ok THEN 1 ELSE 0, FALSE, call.queued)
    /\ UNCHANGED <<bridge, pc, env, hist, wire>>

\* create_response()
CallCreateResponse ==
    /\ call.queued < MaxQueued
    /\ LET gate == CreateGate(client)
           ok   == gate = "send" /\ SendOk
       IN  /\ client' = IF gate = "queued" THEN CreateQueue(client)
                        ELSE CreateResume(client, ok)
           /\ call' = Called("create_response",
                             CASE ok -> "True" [] gate = "queued" -> "False" [] OTHER -> "None",
                             IF ok THEN 1 ELSE 0, FALSE,
                             IF gate = "queued" THEN call.queued + 1 ELSE call.queued)
    /\ UNCHANGED <<bridge, pc, env, hist, wire>>

\* the event stream can deliver: while self.websocket and self.is_connected
StreamOpen ==
    /\ pc.openai \in {"none", "recv"}
    /\ client.websocket # "none"
    /\ client.is_connected

\* receive_events(): response.done is received and {done} yielded; the
\* consumer stops there, or asks for the next event, which clears in-progress
\* and sends the queued create_response
CallEventDone ==
    /\ StreamOpen
    /\ env.oa_sock \in {"open", "closing"}
    /\ \E resumed \in BOOLEAN :
         LET c     == AfterYieldDone(client)
             issue == resumed /\ client.pending_response_request
                              /\ CreateGate(c) = "send"
             ok    == issue /\ SendOk
         IN  /\ client' = IF ~resumed THEN client
                          ELSE IF issue THEN CreateResume(c, ok) ELSE c
             /\ pc' = [pc EXCEPT !.openai = IF resumed THEN "recv" ELSE "done"]
             /\ call' = Called("response.done", "none", IF ok THEN 1 ELSE 0, resumed,
                               IF resumed THEN 0 ELSE call.queued)
    /\ UNCHANGED <<bridge, env, hist, wire>>

\* receive_events(): any other message, the consumer asking for the next event
CallEventOther ==
    /\ StreamOpen
    /\ env.oa_sock \in {"open", "closing"}
    /\ \E m \in Messages \ {"response.done"}, len \in DeltaLens :
         /\ client' = BeforeYield(client, m, len)
         /\ call' = Called(m, Yielded(m, len), 0, TRUE, call.queued)
    /\ pc' = [pc EXCEPT !.openai = "recv"]
    /\ UNCHANGED <<bridge, env, hist, wire>>

\* receive_events(): recv() raises ConnectionClosed and the stream ends
CallEventClosed ==
    /\ StreamOpen
    /\ env.oa_sock = "closing"
    /\ env' = [env EXCEPT !.oa_sock = "closed"]
    /\ pc' = [pc EXCEPT !.openai = "done"]
    /\ call' = Called("closed", "none", 0, FALSE, call.queued)
    /\ UNCHANGED <<client, bridge, hist, wire>>

\* disconnect(): close() returns or raises
CallDisconnect ==
    /\ \E ok \in BOOLEAN :
         /\ client' = IF client.websocket = "none" THEN DisconnectBegin(client)
                      ELSE DisconnectResume(DisconnectBegin(client), ok)
         /\ call' = Called("disconnect", IF ok THEN "closed" ELSE "raised", 0, FALSE, call.queued)
    /\ env' = [env EXCEPT !.oa_sock = IF client.websocket = "none" THEN @ ELSE "closed"]
    /\ UNCHANGED <<bridge, pc, hist, wire>>

\* the speech API closes the connection between two calls
CallPeerClose ==
    /\ env.oa_sock = "open"
    /\ env' = [env EXCEPT !.oa_sock = "closing"]
    /\ UNCHANGED <<client, bridge, pc, hist, call, wire>>

NextClient ==
    \/ CallPeerClose
    \/ CallConnect \/ CallConfigure \/ CallSendAudio \/ CallCommit
    \/ CallCreateResponse \/ CallEventDone \/ CallEventOther \/ CallEventClosed
    \/ CallDisconnect

SpecClient == InitClient /\ [][NextClient]_vars

----------------------------------------------------------------------------
(* SpecStreams: a stretch of a running call with the audio followed byte by *)
(* byte.  It starts after connect() succeeded and the start event and its   *)
(* tone were handled, with no chunk or with nine chunks waiting for their   *)
(* commit, and runs the ingress and the speech-event task for MaxReceived   *)
(* bytes of caller audio and MaxAudioEvents audio deltas, shorter than the  *)
(* 30 s sleep of the keepalive task.                                        *)

\* chunks appended since the last commit when the stretch starts
StreamsChunks == {0, ChunksPerCommit - 1}

InitStreams ==
    /\ \E sid \in {"", "MZ"}, k \in StreamsChunks :
         /\ bridge = [BridgeInit EXCEPT !.stream_sid = sid, !.started_event = TRUE,
                                        !.chunks_since_commit = k]
         /\ client = [ConnectCreated(ConnectOpened(ClientInit), "sess") EXCEPT
                         !.ms_since_last_commit = k * MsAdded(MulawToPcm16Len(FrameBytes))]
         /\ hist = [HistInit EXCEPT !.connect_result = "ok", !.appends = k > 0,
                                    !.media_seen = k > 0, !.tone_complete = sid # ""]
    /\ pc = [ conn |-> "gather", twilio |-> "recv", openai |-> "recv",
              heartbeat |-> "sleep", attempt |-> 1, tw_left |-> 0, oa_left |-> 0 ]
    /\ env = [ oa_sock |-> "open", tw_sock |-> "open" ]
    /\ call = CallInit
    /\ wire = [WireOff EXCEPT !.on = TRUE]

NextStreams ==
    \/ TwilioMedia \/ AppendSendDone \/ CommitSendDone \/ CreateSendDone
    \/ TwilioStop \/ TwilioPeerDisconnect
    \/ OnAudioDelta \/ EgressChunkDone \/ SpeechPeerClose \/ EventStreamClosed

SpecStreams == InitStreams /\ [][NextStreams]_vars

----------------------------------------------------------------------------
(* Claims about the client, checked under SpecClient *)

Threshold == CommitThresholdMs * SampleRate

CommitCalled == call.op = "commit_audio"

\* C1 (as stated): commit_audio without a transport sends nothing and returns
\* None; with a transport and less than 100 ms it sends nothing, returns False
\* and leaves the counter; with a transport and at least 100 ms it sends one
\* input_audio_buffer.commit, resets the counter to 0 and returns True.
C1_AsStated ==
    CommitCalled =>
      /\ call.pre.websocket = "none" => call.sent = 0 /\ call.ret = "None"
      /\ (call.pre.websocket # "none" /\ call.pre.ms_since_last_commit < Threshold)
            => call.sent = 0 /\ call.ret = "False" /\ client = call.pre
      /\ (call.pre.websocket # "none" /\ call.pre.ms_since_last_commit >= Threshold)
            => call.sent = 1 /\ call.ret = "True" /\ client.ms_since_last_commit = 0

\* C1 (amended): as stated, except that with a transport and at least 100 ms
\* the commit is sent, the counter reset and True returned when the send
\* succeeds; when the send raises nothing is sent, None is returned and the
\* counter is left as it was.  No commit is sent below 100 ms.
C1_CommitGating ==
    CommitCalled =>
      /\ call.pre.websocket = "none"
            => call.sent = 0 /\ call.ret = "None" /\ client = call.pre
      /\ (call.pre.websocket # "none" /\ call.pre.ms_since_last_commit < Threshold)
            => call.sent = 0 /\ call.ret = "False" /\ client = call.pre
      /\ (call.pre.websocket # "none" /\ call.pre.ms_since_last_commit >= Threshold
          /\ call.sock = "open")
            => call.sent = 1 /\ call.ret = "True" /\ client.ms_since_last_commit = 0
      /\ (call.pre.websocket # "none" /\ call.pre.ms_since_last_commit >= Threshold
          /\ call.sock # "open")
            => call.sent = 0 /\ call.ret = "None" /\ client = call.pre
      /\ call.sent = 1 => call.pre.ms_since_last_commit >= Threshold

\* a commit at exactly 100 ms that was sent
C1_Witness ==
    /\ CommitCalled
    /\ call.pre.ms_since_last_commit = Threshold
    /\ call.ret = "True"
    /\ client.ms_since_last_commit = 0

C15_ConnectNeverRaises ==
    call.op = "connect" =>
      /\ call.ret \in {"True", "False"}
      /\ call.ret = "True" => call.first = "session.created"
      /\ call.first # "session.created" => call.ret = "False"
      /\ call.ret = "True" =>
            /\ client.is_connected
            /\ client.session_id = call.id
            /\ client.websocket # "none"
      /\ call.ret = "False" => ~client.is_connected /\ client.session_id = "none"

\* connect() returned True with the second of the ids
C15_Witness ==
    /\ call.op = "connect"
    /\ call.ret = "True"
    /\ call.id = "sess2"
    /\ client.session_id = "sess2"
    /\ client.is_connected

\* C16: send_audio returns True or None; without a transport or when the send
\* raises it returns None, sends nothing and leaves the client as it was;
\* when the send succeeds it adds the duration of the audio to
\* ms_since_last_commit, 20 ms for 960 bytes.  The counter goes down only
\* in a commit_audio whose send succeeded, which sets it to 0.
C16_IngestAccounting ==
    /\ [](call.op = "send_audio" =>
             /\ call.ret \in {"True", "None"}
             /\ (call.pre.websocket = "none" \/ call.sock # "open")
                   => call.ret = "None" /\ call.sent = 0 /\ client = call.pre
             /\ (call.pre.websocket # "none" /\ call.sock = "open")
                   => /\ call.ret = "True" /\ call.sent = 1
                      /\ client.ms_since_last_commit =
                            call.pre.ms_since_last_commit
                              + (call.len \div 2) * MsPerSecond
                      /\ call.len = 960 =>
                            client.ms_since_last_commit
                              = call.pre.ms_since_last_commit + 20 * SampleRate)
    /\ [][client'.ms_since_last_commit < client.ms_since_last_commit =>
             /\ client'.ms_since_last_commit = 0
             /\ call'.op = "commit_audio"
             /\ call'.ret = "True"
             /\ call'.sent = 1]_vars

\* a 960-byte frame was added to audio already buffered
C16_Witness ==
    /\ call.op = "send_audio"
    /\ call.ret = "True"
    /\ call.len = 960
    /\ call.pre.ms_since_last_commit > 0
    /\ client.ms_since_last_commit = call.pre.ms_since_last_commit + 20 * SampleRate

\* C17: after any call of disconnect() the client has no transport, no
\* session_id and is_connected is false, also when close() raised; a call on
\* a client without a transport changes nothing.
C17_DisconnectComplete ==
    call.op = "disconnect" =>
      /\ client.websocket = "none"
      /\ client.session_id = "none"
      /\ ~client.is_connected
      /\ call.pre.websocket = "none" => client = call.pre

----------------------------------------------------------------------------
(* Claims about the bridge, checked under Spec and FairSpec *)

\* C2: at most one response generation is in flight: no second
\* response.create is sent on the speech socket between a response.create
\* that was sent and the next response.done.
C2_OneInFlight == hist.creates_since_done <= 1

ClearedAndIssued ==
    /\ ~client'.response_in_progress
    /\ ~client'.pending_response_request
    /\ client.pending_response_request => pc'.openai = "create_send"

C5_ConfiguredOnce ==
    /\ (hist.connect_result = "ok" /\ hist.appends) => hist.session_updates = 1
    /\ (hist.connect_result = "ok" /\ pc.conn = "closed") => hist.session_updates = 1

\* C6: whenever one of the three tasks has ended, is_active is false (so that
\* the others leave their loops).
C6_TaskEndStopsBridge ==
    (pc.twilio = "done" \/ pc.openai = "done" \/ pc.heartbeat = "done")
        => ~bridge.is_active

\* a step the bridge takes on its own, with no message from either peer
OwnStep == ConnStep \/ IngressStep \/ EventStep \/ HeartbeatStep

TasksDone ==
    /\ pc.twilio = "done"
    /\ pc.openai \in {"none", "done"}
    /\ pc.heartbeat \in {"none", "done"}

\* C7: once is_active is false each task leaves its loop and the bridge goes
\* on to Closed without any further message from the speech API or from
\* telephony: a task that has not ended has a step of its own to take, and so
\* has handle_connection once the tasks have ended.
C7_CancelNeedsNoMessage ==
    (~bridge.is_active /\ pc.conn = "gather") =>
        /\ pc.twilio = "done" \/ ENABLED <<IngressStep>>_vars
        /\ pc.openai = "done" \/ ENABLED <<EventStep>>_vars
        /\ pc.heartbeat = "done" \/ ENABLED <<HeartbeatStep>>_vars
        /\ TasksDone => ENABLED <<ConnStep>>_vars

EarlyStop == hist.stop_seen /\ ~hist.media_seen

\* C8: a stop event before any media event leaves zero frames processed and
\* no commit sent, and the bridge eventually completes teardown.
C8_EarlyHangup ==
    /\ [](EarlyStop => /\ ~hist.appends
                       /\ bridge.audio_buffer = 0
                       /\ bridge.chunks_since_commit = 0
                       /\ client.ms_since_last_commit = 0)
    /\ (EarlyStop ~> pc.conn = "closed")

ConnectFailed == hist.connect_result = "fail"

\* C9: when connect() returned failure the bridge does not abort: while it is
\* active the ingress and keepalive tasks run and handle_connection waits for
\* them; no speech-event task exists, so that no model audio is relayed; the
\* diagnostic tone of a start event with a stream identifier is written in
\* full while the telephony socket is open, unless handle_connection is
\* cancelled; and once the stop event was processed the bridge reaches Closed.
C9_DegradedMode ==
    /\ [](ConnectFailed =>
            /\ pc.openai = "none"
            /\ bridge.is_active =>
                  /\ pc.conn = "gather"
                  /\ pc.twilio # "done"
                  /\ pc.heartbeat \in {"start", "sleep", "send"}
            /\ (bridge.stream_sid # "" /\ env.tw_sock = "open" /\ ~hist.cancelled
                /\ pc.twilio \notin {"clear_send", "tone_send"})
                  => hist.tone_complete)
    /\ ((ConnectFailed /\ hist.stop_seen) ~> pc.conn = "closed")

\* connect() failed, a start event came afterwards and its tone was written,
\* and the stop event closed the bridge
C9_Witness ==
    /\ ConnectFailed
    /\ hist.tone_complete
    /\ hist.stop_seen
    /\ pc.conn = "closed"
    /\ client.websocket = "none"

\* C10: whenever the ingress task is about to receive the next message the
\* accumulator holds between 0 and 159 bytes.
C10_AccumulatorBelowFrame ==
    pc.twilio = "recv" => bridge.audio_buffer \in 0 .. (FrameBytes - 1)

\* half a frame is carried over while ten chunks wait for a commit that
\* failed, the speech socket being gone
C10_Witness ==
    /\ pc.twilio = "recv"
    /\ bridge.audio_buffer = 80
    /\ bridge.chunks_since_commit = ChunksPerCommit
    /\ env.oa_sock # "open"

----------------------------------------------------------------------------
(* Claims about the audio streams, checked under SpecStreams *)

IngressIdle == pc.twilio \in {"recv", "done"}

\* C11: however the N bytes received so far were split over media messages,
\* the frames cut are, in order, the bytes 0..159, 160..319, ... of the
\* received stream, 160 bytes each; the accumulator holds the bytes that
\* follow them; and whenever the ingress loop is through with a message
\* exactly N div 160 frames were cut and N mod 160 bytes are buffered.
C11_ChunkingInvariance ==
    /\ RunsLen(wire.buf) = bridge.audio_buffer
    /\ \A k \in 1 .. Len(wire.cut) :
          Joined(wire.cut[k]) = << <<(k - 1) * FrameBytes, k * FrameBytes>> >>
    /\ Joined(wire.buf) =
          IF wire.received = Len(wire.cut) * FrameBytes THEN <<>>
          ELSE << <<Len(wire.cut) * FrameBytes, wire.received>> >>
    /\ IngressIdle =>
          /\ Len(wire.cut) = wire.received \div FrameBytes
          /\ bridge.audio_buffer = wire.received % FrameBytes

\* 560 bytes came in messages of which one ended inside a frame: three frames
\* were cut, one of them from two messages, and 80 bytes are buffered
C11_Witness ==
    /\ pc.twilio = "recv"
    /\ wire.received = 560
    /\ Len(wire.cut) = 3
    /\ \E k \in 1 .. Len(wire.cut) : Len(wire.cut[k]) = 2
    /\ bridge.audio_buffer = 80

\* the media frames written for the buffer of the latest send_audio_to_twilio
EgressFrames == SelectSeq(wire.written, LAMBDA f : f.ev = wire.egress_ev)

RECURSIVE DataSum(_)
DataSum(fs) == IF fs = <<>> THEN 0 ELSE Head(fs).chunk.data + DataSum(Tail(fs))

\* send_audio_to_twilio was called with a nonempty buffer and has returned
EgressReturned ==
    /\ pc.openai \in {"recv", "done"}
    /\ wire.egress_ev > 0
    /\ wire.egress_len > 0

\* C12 (as stated): every media frame written carries 160 bytes, and a buffer
\* of L > 0 bytes handed to send_audio_to_twilio is written as ceil(L/160)
\* frames that hold all its L bytes.
C12_AsStated ==
    /\ \A j \in 1 .. Len(wire.written) :
          wire.written[j].chunk.data + wire.written[j].chunk.pad = ChunkSize
    /\ EgressReturned =>
          /\ Len(EgressFrames) = (wire.egress_len + ChunkSize - 1) \div ChunkSize
          /\ DataSum(EgressFrames) = wire.egress_len

\* C12 (amended): every media frame written carries 160 bytes: the bytes of
\* the buffer from a multiple of 160 on, at most 160 of them, and 0xFF
\* padding only in a short last frame.  The frames of one buffer are written
\* from offset 0 upwards without a gap.  With a stream identifier and the
\* telephony socket open the buffer of L > 0 bytes is written as ceil(L/160)
\* frames that hold all L bytes; without a stream identifier nothing is
\* written; a write that raises ends the function and the rest of the
\* buffer is not written.
C12_PaddedFrames ==
    /\ \A j \in 1 .. Len(wire.written) :
          LET f == wire.written[j]
          IN  /\ f.chunk.data + f.chunk.pad = ChunkSize
              /\ f.off % ChunkSize = 0
              /\ f.chunk.data >= 1
              /\ f.chunk.data = (IF f.of - f.off < ChunkSize THEN f.of - f.off ELSE ChunkSize)
    /\ \A j \in 1 .. Len(EgressFrames) : EgressFrames[j].off = (j - 1) * ChunkSize
    /\ Len(EgressFrames) <= (wire.egress_len + ChunkSize - 1) \div ChunkSize
    /\ (EgressReturned /\ bridge.stream_sid # "" /\ env.tw_sock = "open") =>
          /\ Len(EgressFrames) = (wire.egress_len + ChunkSize - 1) \div ChunkSize
          /\ DataSum(EgressFrames) = wire.egress_len
    /\ bridge.stream_sid = "" => wire.written = <<>>

\* a buffer of 161 bytes was written as two frames, the second one carrying
\* one byte and 159 bytes of padding
C12_Witness ==
    /\ EgressReturned
    /\ wire.egress_len = ChunkSize + 1
    /\ Len(EgressFrames) = 2
    /\ EgressFrames[2].chunk = [data |-> 1, pad |-> ChunkSize - 1]

\* C20: the frames sent to the speech API are frames cut from the telephony
\* stream, in the order of the stream; the media frames written by the
\* speech-event task are in the order of the audio events they belong to
\* and, within one event, in the order of their offsets.
C20_OrderPreserved ==
    /\ \A i \in 1 .. Len(wire.sent) : \E k \in 1 .. Len(wire.cut) : wire.cut[k] = wire.sent[i]
    /\ \A i, j \in 1 .. Len(wire.sent) :
          i < j => wire.sent[i][1][1] < wire.sent[j][1][1]
    /\ \A j \in 1 .. Len(wire.written) : wire.written[j].ev \in 1 .. wire.events
    /\ \A i, j \in 1 .. Len(wire.written) :
          i < j => \/ wire.written[i].ev < wire.written[j].ev
                   \/ /\ wire.written[i].ev = wire.written[j].ev
                      /\ wire.written[i].off < wire.written[j].off

\* two frames went to the speech API and a third was cut but could not be
\* sent; two audio events were written to telephony, two frames each
C20_Witness ==
    /\ Len(wire.sent) = 2
    /\ Len(wire.cut) = 3
    /\ pc.twilio = "recv"
    /\ Len(wire.written) = 4
    /\ wire.written[2].ev = 1
    /\ wire.written[3].ev = 2

----------------------------------------------------------------------------
(* Further claims about the bridge, checked under Spec *)

EgressWrite == ClearSendDone \/ ToneChunkDone \/ EgressChunkDone

C14_CommitPacing ==
    /\ [][bridge'.chunks_since_commit # bridge.chunks_since_commit =>
             \/ /\ AppendSendDone
                /\ SendOk
                /\ bridge'.chunks_since_commit = bridge.chunks_since_commit + 1
             \/ /\ CommitSendDone
                /\ SendOk
                /\ bridge'.chunks_since_commit = 0]_vars
    /\ [][(pc'.twilio = "commit_send" /\ pc.twilio # "commit_send") =>
             /\ AppendSendDone
             /\ bridge'.chunks_since_commit >= ChunksPerCommit]_vars
    /\ [][((pc'.twilio = "create_send" /\ pc.twilio # "create_send")
            \/ (client'.pending_response_request /\ ~client.pending_response_request)) =>
             /\ CommitSendDone
             /\ SendOk
             /\ bridge'.chunks_since_commit = 0
             /\ client'.ms_since_last_commit = 0]_vars

\* the commit of ten chunks was sent and the ingress task is sending
\* response.create
C14_Witness ==
    /\ pc.twilio = "create_send"
    /\ bridge.chunks_since_commit = 0
    /\ client.ms_since_last_commit = 0
    /\ hist.appends

\* C18: while handle_connection waits for the start event the speech socket
\* is not opened, and the wait always ends, by the event or by the timeout;
\* the socket is first opened by connect() after the wait; the timeout leaves
\* the bridge as it is and goes on to connect(); and once connect() has
\* returned the keepalive task runs, and the speech-event task when it
\* returned True.
C18_ConnectAfterStart ==
    /\ [](pc.conn = "wait_start" =>
             /\ env.oa_sock = "unopened"
             /\ client.websocket = "none"
             /\ ENABLED <<StartObserved \/ StartTimeout>>_vars)
    /\ [][(env.oa_sock = "unopened" /\ env'.oa_sock # "unopened") =>
             pc.conn = "ws_connect"]_vars
    /\ [][StartTimeout => pc'.conn = "ws_connect" /\ bridge' = bridge]_vars
    /\ [](pc.conn = "gather" =>
             /\ pc.heartbeat # "none"
             /\ hist.connect_result = "ok" => pc.openai # "none")

\* no start event has arrived, connect() succeeded and the tasks run
C18_Witness ==
    /\ pc.conn = "gather"
    /\ ~bridge.started_event
    /\ bridge.is_active
    /\ env.oa_sock = "open"
    /\ pc.openai = "recv"
    /\ pc.heartbeat = "sleep"

\* C19: when handle_connection has returned, is_active is false, disconnect()
\* was called (is_connected is false and the speech socket, if one was
\* opened, is closed) and the telephony socket is closed; in the finally
\* block the close of the speech socket, returned or raised, is followed by
\* the close of the telephony socket, and that one, returned or raised, by
\* the return.
C19_TeardownComplete ==
    /\ [](pc.conn = "closed" =>
             /\ ~bridge.is_active
             /\ ~client.is_connected
             /\ env.oa_sock \in {"unopened", "closed"}
             /\ env.tw_sock = "closed")
    /\ [](pc.conn \in {"oa_close", "tw_close"} =>
             /\ ~bridge.is_active
             /\ ~client.is_connected
             /\ ENABLED <<SpeechCloseDone \/ TelephonyCloseDone>>_vars)
    /\ [][SpeechCloseDone => pc'.conn = "tw_close"]_vars
    /\ [][TelephonyCloseDone => pc'.conn = "closed"]_vars

\* handle_connection was cancelled, the close of the speech socket raised
\* and the telephony socket was closed all the same
C19_Witness ==
    /\ pc.conn = "closed"
    /\ hist.cancelled
    /\ client.websocket # "none"
    /\ env.tw_sock = "closed"

\* C21: a message that makes the handling code raise (a telephony message
\* that is not JSON, a media payload that is not base64, a speech message
\* that is not JSON) is caught inside its task and makes is_active false.
C21_FaultStopsBridge ==
    /\ [][TwilioMalformed => ~bridge'.is_active]_vars
    /\ [][OnMalformedMessage => ~bridge'.is_active]_vars

\* C24: the keepalive task begins the send of a heartbeat only after a sleep
\* and with is_active true, and while the bridge is active the sleep is
\* followed by a send; with is_active false it sends nothing more and ends;
\* a send that raised makes is_active false and ends the task; and no step
\* of the task changes the client, stream_sid, the accumulator, the chunk
\* counter or started_event.
C24_Keepalive ==
    /\ [][(pc'.heartbeat = "send" /\ pc.heartbeat # "send") =>
             /\ HeartbeatWake
             /\ bridge.is_active]_vars
    /\ [][(HeartbeatWake /\ bridge.is_active) => pc'.heartbeat = "send"]_vars
    /\ [][((HeartbeatStart \/ HeartbeatWake) /\ ~bridge.is_active) =>
             pc'.heartbeat = "done"]_vars
    /\ [][(HeartbeatSendDone /\ env.tw_sock # "open") =>
             ~bridge'.is_active /\ pc'.heartbeat = "done"]_vars
    /\ [][(HeartbeatSendDone /\ env.tw_sock = "open") => bridge' = bridge]_vars
    /\ [][HeartbeatStep =>
             /\ client' = client
             /\ bridge' = [bridge EXCEPT !.is_active = bridge'.is_active]
             /\ bridge.is_active \/ ~bridge'.is_active
             /\ env' = env]_vars
    /\ [](pc.heartbeat \in {"start", "sleep", "send"} => ENABLED <<HeartbeatStep>>_vars)

\* a heartbeat could not be sent to a caller who had gone without a stop
\* event: the keepalive task stopped the bridge and ended, the ingress task
\* still running
C24_Witness ==
    /\ pc.heartbeat = "done"
    /\ ~bridge.is_active
    /\ env.tw_sock = "disconnected"
    /\ ~hist.stop_seen
    /\ ~hist.cancelled
    /\ pc.twilio # "done"

\* C25: ms_since_last_commit is 20 ms for every chunk counted, so that with
\* ten chunks counted commit_audio is not skipped, and the ingress task sends
\* a commit with exactly ten chunks and 200 ms.
C25_FrameCountSuffices ==
    /\ client.ms_since_last_commit = bridge.chunks_since_commit * 20 * SampleRate
    /\ bridge.chunks_since_commit >= ChunksPerCommit => CommitGate(client) # "skipped"
    /\ pc.twilio = "commit_send" =>
          /\ bridge.chunks_since_commit >= ChunksPerCommit
          /\ client.ms_since_last_commit >= CommitThresholdMs * SampleRate

\* ten chunks are counted after a commit that failed and appends that failed
\* with it: the counters still agree
C25_Witness ==
    /\ pc.twilio = "recv"
    /\ bridge.chunks_since_commit = ChunksPerCommit
    /\ client.ms_since_last_commit = 200 * SampleRate
    /\ env.oa_sock = "closing"
    /\ bridge.audio_buffer = 0

IngressSending == pc.twilio \in {"append_send", "commit_send", "create_send"}

\* C26: until connect() has received session.created the ingress task sends
\* no append, commit or response.create on the speech socket.
C26_NothingBeforeCreated ==
    hist.connect_result = "pending" => ~hist.appends /\ ~IngressSending

\* C27: after connect() returned False the client has no transport and the
\* ingress task sends nothing to the speech API.
C27_FailedConnectNoTransport ==
    ConnectFailed => client.websocket = "none" /\ ~IngressSending

\* C28: when the wait for the start event ends with is_active false,
\* connect() is not called, and no task is created with is_active false.
C28_NoConnectAfterStop ==
    /\ [][(pc.conn = "wait_start" /\ ~bridge.is_active) => pc'.conn # "ws_connect"]_vars
    /\ [][(pc.heartbeat = "none" /\ pc'.heartbeat # "none") => bridge.is_active]_vars

\* C30: a pending response request implies a response in progress.
C30_PendingImpliesInProgress ==
    client.pending_response_request => client.response_in_progress

\* a request was queued behind a response in progress and the ingress task
\* goes on with the next frame
C30_Witness ==
    /\ client.pending_response_request
    /\ client.response_in_progress
    /\ pc.twilio = "append_send"
    /\ bridge.chunks_since_commit = 0

----------------------------------------------------------------------------
(* SpecCodec: the two transcoding functions on byte buffers.  A buffer is a *)
(* sequence of byte values 0..255; `call` holds the buffer given to the     *)
(* function called last (src) and what it returned (out).                   *)

\* longest mu-law buffer given to mulaw_to_pcm16
MaxMulawLen == 3
\* longest PCM buffer given to pcm16_to_mulaw directly
MaxPcmLen == 8

\* byte values of the mu-law buffers longer than one byte: the two ends of
\* each sign, the two codes of zero (0x7F, 0xFF) and one value in between
MulawBytes == {0, 42, 127, 128, 255}
\* byte values of the PCM buffers: samples 0, 1, 128, 256, 257, 384 and the
\* negative -32768, -32767, -32640
PcmBytes == {0, 1, 128}

RECURSIVE Pow2(_)
Pow2(n) == IF n = 0 THEN 1 ELSE 2 * Pow2(n - 1)

\* audioop.ulaw2lin on one byte (realtime_bridge.py:484); the values are
\* those of MULAW_TABLE (500-533):  u = ~b; t = ((u & 0x0F) << 3) + 0x84;
\* t <<= (u & 0x70) >> 4;  the sign is bit 7 of u
UlawToLinear(b) ==
    LET u == 255 - b
        t == (((u % 16) * 8) + 132) * Pow2((u \div 16) % 8)
    IN  IF u >= 128 THEN 132 - t ELSE t - 132

\* the segment of a biased 14-bit magnitude: the first of 0x3F, 0x7F, ...,
\* 0x1FFF that is not below it, 8 when there is none
RECURSIVE Segment(_, _)
Segment(v, seg) ==
    IF seg = 8 \/ v <= Pow2(seg + 6) - 1 THEN seg ELSE Segment(v, seg + 1)

\* audioop.lin2ulaw on one 16-bit sample (realtime_bridge.py:561): the
\* sample is reduced to 14 bits (arithmetic shift by 2), the magnitude is
\* biased by 33, and segment and mantissa are inverted under the sign mask
LinearToUlaw(s) ==
    LET v14  == s \div 4
        neg  == v14 < 0
        mag  == (IF neg THEN -v14 ELSE v14) + 33
        seg  == Segment(mag, 0)
        uval == IF seg = 8 THEN 127
                ELSE (seg * 16) + ((mag \div Pow2(seg + 1)) % 16)
    IN  IF neg THEN 127 - uval ELSE 255 - uval

\* the two bytes of a signed 16-bit sample, little endian
Pack(s) == << (s % 65536) % 256, (s % 65536) \div 256 >>

\* the signed 16-bit sample made of bytes lo, hi
Unpack(lo, hi) ==
    LET w == lo + (256 * hi) IN IF w >= 32768 THEN w - 65536 ELSE w

\* realtime_bridge.py:490-492 with two copies instead of three
UpsampledTwice(s) == Pack(s) \o Pack(s)

\* realtime_bridge.py:488-492: each sample is written three times
Upsampled(s) == Pack(s) \o Pack(s) \o Pack(s)

RECURSIVE MulawToPcm16(_)
MulawToPcm16(mulaw_data) ==
    IF mulaw_data = << >> THEN << >>
    ELSE Upsampled(UlawToLinear(Head(mulaw_data)))
            \o MulawToPcm16(Tail(mulaw_data))

\* realtime_bridge.py:556-557: for i in range(0, len(pcm_data) - 2, 6)
\* the slice pcm_data[i:i+2] is kept (i counts from 0)
RECURSIVE Downsampled(_, _)
Downsampled(pcm_data, i) ==
    IF i >= Len(pcm_data) - 2 THEN << >>
    ELSE << pcm_data[i + 1], pcm_data[i + 2] >> \o Downsampled(pcm_data, i + 6)

\* audioop.lin2ulaw(bytes(downsampled), 2) on a buffer of whole samples
Lin2Ulaw(d) ==
    [ k \in 1..(Len(d) \div 2) |-> LinearToUlaw(Unpack(d[(2 * k) - 1], d[2 * k])) ]

Pcm16ToMulaw(pcm_data) == Lin2Ulaw(Downsampled(pcm_data, 0))

\* all the buffers of length 0..n over the byte values in B
RECURSIVE Buffers(_, _)
Buffers(B, n) ==
    IF n = 0 THEN { << >> }
    ELSE LET shorter == Buffers(B, n - 1)
         IN  shorter \cup { Append(b, x) : b \in { y \in shorter : Len(y) = n - 1 }, x \in B }

\* mu-law inputs: every single byte, and the longer buffers over MulawBytes
MulawInputs == { << b >> : b \in 0..255 } \cup Buffers(MulawBytes, MaxMulawLen)
PcmInputs == Buffers(PcmBytes, MaxPcmLen)

Codec(op, kind, arg, src, out) ==
    [ op |-> op, kind |-> kind, arg |-> arg, src |-> src, out |-> out ]

InitCodec ==
    /\ client = ClientInit
    /\ bridge = BridgeInit
    /\ pc = [ conn |-> "none", twilio |-> "none", openai |-> "none",
              heartbeat |-> "none", attempt |-> 0, tw_left |-> 0, oa_left |-> 0 ]
    /\ env = [ oa_sock |-> "unopened", tw_sock |-> "open" ]
    /\ hist = HistInit
    /\ wire = WireOff
    /\ \/ \E m \in MulawInputs : call = Codec("none", "mulaw", m, << >>, << >>)
       \/ \E p \in PcmInputs : call = Codec("none", "pcm", p, << >>, << >>)

\* the ingress path: mulaw_to_pcm16 on a telephony buffer
CallMulawToPcm16 ==
    /\ call.op = "none"
    /\ call.kind = "mulaw"
    /\ call' = Codec("mulaw_to_pcm16", call.kind, call.arg, call.arg,
                     MulawToPcm16(call.arg))
    /\ UNCHANGED <<client, bridge, pc, env, hist, wire>>

\* the egress path: pcm16_to_mulaw on a PCM buffer of the speech API
CallPcm16ToMulaw ==
    /\ call.op = "none"
    /\ call.kind = "pcm"
    /\ call' = Codec("pcm16_to_mulaw", call.kind, call.arg, call.arg,
                     Pcm16ToMulaw(call.arg))
    /\ UNCHANGED <<client, bridge, pc, env, hist, wire>>

\* pcm16_to_mulaw on what mulaw_to_pcm16 returned
CallRoundTrip ==
    /\ call.op = "mulaw_to_pcm16"
    /\ call' = Codec("round_trip", call.kind, call.arg, call.out,
                     Pcm16ToMulaw(call.out))
    /\ UNCHANGED <<client, bridge, pc, env, hist, wire>>

NextCodec == CallMulawToPcm16 \/ CallPcm16ToMulaw \/ CallRoundTrip

SpecCodec == InitCodec /\ [][NextCodec]_vars

\* the lengths used where only the length of the audio is followed agree
\* with the functions on bytes
CodecLengths ==
    /\ call.op = "mulaw_to_pcm16" => Len(call.out) = MulawToPcm16Len(Len(call.src))
    /\ call.op \in {"pcm16_to_mulaw", "round_trip"}
          => Len(call.out) = Pcm16ToMulawLen(Len(call.src))

\* C22: for every mu-law buffer m, pcm16_to_mulaw(mulaw_to_pcm16(m)) is as
\* long as m and its k-th byte is the compression of the expansion of m[k];
\* it is m itself when every byte of m is one that compression of the
\* expansion gives back.
C22_RoundTrip ==
    call.op = "round_trip" =>
        /\ Len(call.out) = Len(call.arg)
        /\ \A k \in 1..Len(call.arg) :
              call.out[k] = LinearToUlaw(UlawToLinear(call.arg[k]))
        /\ (\A k \in 1..Len(call.arg) :
              LinearToUlaw(UlawToLinear(call.arg[k])) = call.arg[k])
              => call.out = call.arg

\* a buffer of three different bytes came back unchanged
C22_Witness ==
    /\ call.op = "round_trip"
    /\ call.arg = << 0, 42, 128 >>
    /\ Len(call.src) = 18
    /\ call.out = call.arg

\* C23: pcm16_to_mulaw of a buffer of L bytes, holding S = L \div 2 whole
\* samples, returns ceil(S/3) bytes, and byte k is the compression of
\* sample 3k of the input (k counted from 0).
C23_EveryThirdSample ==
    call.op \in {"pcm16_to_mulaw", "round_trip"} =>
        LET S == Len(call.src) \div 2
        IN  /\ Len(call.out) = (S + 2) \div 3
            /\ \A k \in 0..(((S + 2) \div 3) - 1) :
                  /\ k + 1 <= Len(call.out)
                  /\ call.out[k + 1] =
                        LinearToUlaw(Unpack(call.src[(6 * k) + 1], call.src[(6 * k) + 2]))

----------------------------------------------------------------------------
(* FairSession: the stretch of SpecStreams with the whole of the speech     *)
(* event stream (response.done, error events, the queued create_response),  *)
(* and with the event loop running every task that is ready.  The messages  *)
(* of the peers are not owed.                                               *)

NextSession ==
    \/ NextStreams
    \/ TwilioRecvRaises
    \/ OnResponseDone \/ OnErrorEvent \/ QueuedCreateSendDone

FairSession ==
    /\ InitStreams
    /\ [][NextSession]_vars
    /\ WF_vars(IngressStep)
    /\ WF_vars(EventStep)

\* the session is live: the bridge is active, the caller is on the line and
\* the speech socket is open with its session created
SessionLive ==
    /\ bridge.is_active
    /\ client.is_connected
    /\ client.websocket # "none"
    /\ env.oa_sock = "open"
    /\ env.tw_sock = "open"

\* C29: when a response.create was sent and an error event arrived during
\* the response in progress, then response_in_progress is eventually cleared
\* or the session is no longer live.
C29_InProgressCleared ==
    (/\ hist.creates_since_done > 0
     /\ wire.error_seen
     /\ client.response_in_progress
     /\ SessionLive)
        ~> (~client.response_in_progress \/ ~SessionLive)

============================================================================
